---- MODULE Spec2Model ----
(***************************************************************************)
(* State-machine model of the homework status bot (src/homework.py).       *)
(*                                                                         *)
(* The program is one sequential process: main() checks the configuration, *)
(* builds the bot and then loops forever over                              *)
(*     try: fetch, validate, translate, notify, advance                    *)
(*     except Exception: report the error unless it repeats                *)
(*     finally: sleep                                                      *)
(* One iteration's try/except is the action PollCycle, the sleep of the    *)
(* finally clause is the action Sleep, and what precedes the loop is the   *)
(* action Startup.  The remote API and the messaging sink are the          *)
(* environment: PollCycle draws their behaviour from bounded sets.         *)
(*                                                                         *)
(* Texts are modelled as sequences of string fragments, so that two texts  *)
(* are equal exactly when the Python strings are (the Russian literals of  *)
(* the source are rendered by ASCII tags, one distinct tag per literal).   *)
(***************************************************************************)
EXTENDS Integers, Sequences, FiniteSets, TLC

VARIABLES
    pc,                       \* position of main(): "start", "poll", "sleep", "exit", "crashed"
    tokens,                   \* PRACTICUM_TOKEN, TELEGRAM_TOKEN, TELEGRAM_CHAT_ID as read at import
    current_timestamp,        \* main's local current_timestamp
    previous_status_message,  \* main's local previous_status_message
    previous_error_message,   \* main's local previous_error_message
    startup,                  \* observation of the code before the loop: its log records
    cycle,                    \* observation of the loop iteration in progress
    prev,                     \* summary of the iteration before it
    runNotified,              \* the watched error text was notified in the current run of failing cycles
    lastGood,                 \* the value current_timestamp was last taken from: the clock or a current_date
    waits,                    \* the durations slept since the last iteration ended
    latest                    \* the text of the latest failing cycle and of the latest status notification attempted

vars == <<pc, tokens, current_timestamp, previous_status_message,
          previous_error_message, startup, cycle, prev, runNotified,
          lastGood, waits, latest>>

----------------------------------------------------------------------------
(* Bounds of the model.                                                    *)

\* Largest integer timestamp the API reports and the clock shows at startup.
MaxDate == 2
\* Longest homeworks list of a response.
MaxLen == 2

----------------------------------------------------------------------------
(* Program constants.                                                      *)

RETRY_PERIOD == 600
RETRY_TIME == RETRY_PERIOD
HTTP_OK == 200
ENDPOINT == "https://practicum.yandex.ru/api/user_api/homework_statuses/"

\* HOMEWORK_VERDICTS: status code -> verdict text.
HOMEWORK_VERDICTS ==
    [s \in {"approved", "reviewing", "rejected"} |->
        CASE s = "approved"  -> "verdict: reviewer liked everything"
          [] s = "reviewing" -> "verdict: taken for review"
          [] s = "rejected"  -> "verdict: reviewer has remarks"]

TokenNames == {"PRACTICUM_TOKEN", "TELEGRAM_TOKEN", "TELEGRAM_CHAT_ID"}

----------------------------------------------------------------------------
(* Decoded JSON values, tagged by their Python type.                       *)

IntV(n)    == [t |-> "int", v |-> n]
\* A float with the value twice/2; an odd numerator is a non-integral float.
FloatV(m)  == [t |-> "float", twice |-> m]
NaNV       == [t |-> "nan"]
NoneV      == [t |-> "none"]
StrV(s)    == [t |-> "str", s |-> s]
ListV(l)   == [t |-> "list", items |-> l]
DictV(d)   == [t |-> "dict", d |-> d]

\* isinstance(x, dict), isinstance(x, list), isinstance(x, (int, float)).
IsDict(x)   == x.t = "dict"
IsList(x)   == x.t = "list"
\* NaN is a float: isinstance(float('nan'), float) is True.
IsNumber(x) == x.t \in {"int", "float", "nan"}

\* Exceptions: the class and the constructor's arguments.
Exc(type, args) == [type |-> type, args |-> args]
NoExc == [type |-> "none", args |-> <<>>]

\* str(error) as the f-string of the handler renders it: a KeyError renders
\* the repr of its key, every other class its message.
Str(e) ==
    IF e.type = "KeyError" THEN <<"'", e.args[1], "'">> ELSE e.args

\* APIRequestError.__init__: the message with the optional status code.
APIRequestError(endpoint, status_code) ==
    Exc("APIRequestError",
        <<"Program failure: Endpoint ", endpoint, " unavailable.">>
        \o (IF status_code = "None" THEN <<>>
            ELSE <<" API response code: ", status_code>>))

\* APIResponseFormatError.__init__.
APIResponseFormatError(detail) ==
    Exc("APIResponseFormatError", <<"Bad API response format: ", detail>>)

\* int(x) of a validated current_date: an int is itself, a float truncates
\* toward zero, a NaN raises ValueError.
IntOf(x) ==
    CASE x.t = "int"   -> [ok |-> TRUE, value |-> x.v, exc |-> NoExc]
      [] x.t = "float" -> [ok |-> TRUE, value |-> x.twice \div 2, exc |-> NoExc]
      [] x.t = "nan"   -> [ok |-> FALSE, value |-> 0,
                           exc |-> Exc("ValueError",
                                       <<"cannot convert float NaN to integer">>)]

\* x == n for a decoded value x and an integer n, as Python compares
\* numbers: 1.5 equals no integer and a NaN equals nothing.
NumEq(x, n) ==
    \/ x.t = "int" /\ x.v = n
    \/ x.t = "float" /\ x.twice = 2 * n

Log(level, text) == [level |-> level, text |-> text]

----------------------------------------------------------------------------
(* The environment's inputs.                                               *)

\* A homework record: a mapping with the keys of d.
Record(d) == DictV(d)
FullRecord(name, status) ==
    Record([k \in {"homework_name", "status"} |->
               IF k = "homework_name" THEN name ELSE status])

\* Records a response may hold first: not a mapping, a mapping lacking a
\* key, two records of known status, a record of unknown status.
HeadRecords ==
    { StrV("not a record"),
      Record([k \in {"status"} |-> "approved"]),
      Record([k \in {"homework_name"} |-> "hw_a"]),
      FullRecord("hw_a", "approved"),
      FullRecord("hw_b", "rejected"),
      FullRecord("hw_a", "unknown") }

\* Records a response may hold after the first: another valid record, a
\* malformed one and one of unknown status.
TailRecords ==
    { FullRecord("hw_b", "reviewing"),
      StrV("not a record"),
      FullRecord("hw_a", "unknown") }

\* The sequences of at most n later records.
Tails(n) == UNION { [1..k -> TailRecords] : k \in 0..n }

\* The homeworks lists: empty, or a first record and up to MaxLen - 1 more.
HomeworkLists ==
    {<<>>} \cup { <<h>> \o tl : h \in HeadRecords, tl \in Tails(MaxLen - 1) }

\* Values of the current_date key: integer timestamps, and the other kinds
\* of value: a non-integral float (1.5), NaN (json.loads accepts the
\* literal) and a string.
IntDates   == { IntV(n) : n \in 1..MaxDate }
OtherDates == { FloatV(3), NaNV, StrV("yesterday") }
DateValues == IntDates \cup OtherDates

\* A mapping with both keys.
Response(homeworks, current_date) ==
    DictV([k \in {"homeworks", "current_date"} |->
              IF k = "homeworks" THEN homeworks ELSE current_date])

\* Decoded bodies: not a mapping; mappings lacking one key or both; a
\* homeworks value that is no list; the lists of at most one record with
\* every kind of date, and the longer lists with one integer timestamp.
Payloads ==
    { ListV(<<>>) }
    \cup { DictV([k \in {} |-> NoneV]),
           DictV([k \in {"current_date"} |-> IntV(1)]),
           DictV([k \in {"homeworks"} |-> ListV(<<>>)]),
           DictV([k \in {"homeworks"} |-> ListV(<<FullRecord("hw_a", "approved")>>)]),
           DictV([k \in {"homeworks"} |-> StrV("none")]),
           Response(StrV("none"), IntV(1)),
           Response(StrV("none"), StrV("yesterday")) }
    \cup { Response(ListV(l), c) : l \in { x \in HomeworkLists : Len(x) <= 1 },
                                   c \in DateValues }
    \cup { Response(ListV(l), IntV(1)) : l \in { x \in HomeworkLists : Len(x) > 1 } }

\* What requests.get does: raise, or return a response with a status code
\* and a body that decodes to a value or does not decode.
Net(raises, status_code, decodable, value) ==
    [raises |-> raises, status_code |-> status_code,
     decodable |-> decodable, value |-> value]

FetchOutcomes ==
    { Net(TRUE, 0, FALSE, NoneV),
      Net(FALSE, 500, FALSE, NoneV),
      Net(FALSE, HTTP_OK, FALSE, NoneV) }
    \cup { Net(FALSE, HTTP_OK, TRUE, p) : p \in Payloads }

----------------------------------------------------------------------------
(* The functions of src/homework.py.  Each returns a record: ok and value  *)
(* on return, exc when it raises, and the log records it emitted.          *)

Returned(value, logs) == [ok |-> TRUE, value |-> value, exc |-> NoExc, logs |-> logs]
Raised(exc, logs)     == [ok |-> FALSE, value |-> NoneV, exc |-> exc, logs |-> logs]

\* check_tokens testing the values against None only.
check_tokens_absent_only(env) ==
    LET missing == { n \in TokenNames : env[n] = "absent" }
    IN  [all_present |-> missing = {},
         critical    |-> missing]

\* check_tokens: a critical record per missing or empty value; True when
\* all are present.
check_tokens(env) ==
    LET missing == { n \in TokenNames : env[n] \in {"absent", "empty"} }
    IN  [all_present |-> missing = {},
         critical    |-> missing]

\* send_message: hand the text to the sink; log the outcome; never raise.
send_message(sinkOk, message) ==
    IF sinkOk
    THEN [raised |-> FALSE, delivered |-> TRUE,
          logs |-> <<Log("debug", <<"Bot sent message: ">> \o message)>>]
    ELSE [raised |-> FALSE, delivered |-> FALSE,
          logs |-> <<Log("error", <<"Failure sending message">>)>>]

\* The request get_api_answer builds.
Request(timestamp) ==
    [url |-> ENDPOINT, from_date |-> timestamp, authorized |-> TRUE]

\* What get_api_answer does with the outcome of requests.get.
api_answer(net) ==
    IF net.raises
    THEN Raised(APIRequestError(ENDPOINT, "None"),
                <<Log("error", <<"API request error">>)>>)
    ELSE IF net.status_code # HTTP_OK
    THEN Raised(APIRequestError(ENDPOINT, ToString(net.status_code)),
                <<Log("error", <<"Endpoint unavailable, code ",
                                 ToString(net.status_code)>>)>>)
    ELSE IF ~net.decodable
    THEN Raised(APIResponseFormatError("Cannot decode JSON"),
                <<Log("error", <<"Cannot decode JSON">>)>>)
    ELSE Returned(net.value, <<>>)

\* get_api_answer: the request it sends and, of its outcome, the decoded
\* body, or APIRequestError on a transport error or a status other than 200,
\* or APIResponseFormatError on a body that does not decode.
Answer(request, r) ==
    [request |-> request, ok |-> r.ok, value |-> r.value, exc |-> r.exc,
     logs |-> r.logs]

get_api_answer(timestamp, net) == Answer(Request(timestamp), api_answer(net))

\* check_response looking for current_date before homeworks.
check_response_date_first(response) ==
    IF ~IsDict(response)
    THEN Raised(Exc("TypeError", <<"API response is not a dict">>), <<>>)
    ELSE IF "current_date" \notin DOMAIN response.d
    THEN Raised(Exc("KeyError", <<"current_date">>), <<>>)
    ELSE IF "homeworks" \notin DOMAIN response.d
    THEN Raised(Exc("KeyError", <<"homeworks">>), <<>>)
    ELSE IF ~IsList(response.d["homeworks"])
    THEN Raised(Exc("TypeError", <<"homeworks is not a list">>), <<>>)
    ELSE IF ~IsNumber(response.d["current_date"])
    THEN Raised(Exc("TypeError", <<"current_date has invalid type">>), <<>>)
    ELSE Returned(response.d["homeworks"].items, <<>>)

\* check_response: the homeworks list of a well-formed response.
check_response(response) ==
    IF ~IsDict(response)
    THEN Raised(Exc("TypeError", <<"API response is not a dict">>), <<>>)
    ELSE IF "homeworks" \notin DOMAIN response.d
    THEN Raised(Exc("KeyError", <<"homeworks">>), <<>>)
    ELSE IF "current_date" \notin DOMAIN response.d
    THEN Raised(Exc("KeyError", <<"current_date">>), <<>>)
    ELSE IF ~IsList(response.d["homeworks"])
    THEN Raised(Exc("TypeError", <<"homeworks is not a list">>), <<>>)
    ELSE IF ~IsNumber(response.d["current_date"])
    THEN Raised(Exc("TypeError", <<"current_date has invalid type">>), <<>>)
    ELSE Returned(response.d["homeworks"].items, <<>>)

\* The f-string parse_status returns.
StatusText(homework_name, verdict) ==
    <<"Status of work changed: ", homework_name, ". ", verdict>>

\* parse_status with a lenient lookup: a status that is no key of the
\* verdicts is put into the message as it is.
parse_status_lenient(homework) ==
    IF ~IsDict(homework)
    THEN Raised(Exc("TypeError", <<"homework is not a dict">>), <<>>)
    ELSE IF "homework_name" \notin DOMAIN homework.d
    THEN Raised(Exc("KeyError", <<"homework_name">>), <<>>)
    ELSE IF "status" \notin DOMAIN homework.d
    THEN Raised(Exc("KeyError", <<"status">>), <<>>)
    ELSE Returned(StatusText(homework.d["homework_name"],
                             IF homework.d["status"] \in DOMAIN HOMEWORK_VERDICTS
                             THEN HOMEWORK_VERDICTS[homework.d["status"]]
                             ELSE homework.d["status"]), <<>>)

\* parse_status: the message for one homework record.
parse_status(homework) ==
    IF ~IsDict(homework)
    THEN Raised(Exc("TypeError", <<"homework is not a dict">>), <<>>)
    ELSE IF "homework_name" \notin DOMAIN homework.d
    THEN Raised(Exc("KeyError", <<"homework_name">>), <<>>)
    ELSE IF "status" \notin DOMAIN homework.d
    THEN Raised(Exc("KeyError", <<"status">>), <<>>)
    ELSE IF homework.d["status"] \notin DOMAIN HOMEWORK_VERDICTS
    THEN Raised(Exc("KeyError", <<homework.d["status"]>>),
                <<Log("error", <<"Undocumented homework status: ",
                                 homework.d["status"]>>)>>)
    ELSE Returned(StatusText(homework.d["homework_name"],
                             HOMEWORK_VERDICTS[homework.d["status"]]), <<>>)

----------------------------------------------------------------------------
(* The body of main's loop.                                                *)

Sent(kind, text, delivered) == [kind |-> kind, text |-> text, delivered |-> delivered]

\* response.get(key, default) of a dict.
Get(d, key, default) == IF key \in DOMAIN d THEN d[key] ELSE default

\* What the try block leaves behind: whether it raised and what, the locals
\* it assigned, the notifications it attempted and its log records.
TryResult(exc, ts, psm, translated, sent, logs) ==
    [raised |-> exc # NoExc, exc |-> exc, ts |-> ts, psm |-> psm,
     translated |-> translated, sent |-> sent, logs |-> logs]

\* The advance of the timestamp never taking the converted value.
try_advance_stuck(response, ts, psm, status_message, sent, logs, adv) ==
    IF ~adv.ok THEN TryResult(adv.exc, ts, psm, status_message, sent, logs)
    ELSE TryResult(NoExc, ts, psm, status_message, sent, logs)

\* The try block from the advance of the timestamp (line 312) on: int() of
\* response.get('current_date', current_timestamp).
try_advance(response, ts, psm, status_message, sent, logs, adv) ==
    IF ~adv.ok THEN TryResult(adv.exc, ts, psm, status_message, sent, logs)
    ELSE TryResult(NoExc, adv.value, psm, status_message, sent, logs)

\* The try block storing the message only when the sink delivered it.
try_notify_store_delivered(response, homeworks, status_message, ts, psm, snd, logs) ==
    IF homeworks # <<>> /\ status_message # psm
    THEN IF snd.raised
         THEN TryResult(Exc("Exception", <<"sink failure">>), ts, psm,
                        status_message,
                        <<Sent("status", status_message, snd.delivered)>>,
                        logs \o snd.logs)
         ELSE try_advance(response, ts,
                          IF snd.delivered THEN status_message ELSE psm,
                          status_message,
                          <<Sent("status", status_message, snd.delivered)>>,
                          logs \o snd.logs,
                          IntOf(Get(response.d, "current_date", IntV(ts))))
    ELSE try_advance(response, ts, psm, status_message, <<>>,
                     logs \o (IF homeworks # <<>>
                              THEN <<Log("debug", <<"Homework status unchanged.">>)>>
                              ELSE <<Log("debug", <<"No new statuses in response.">>)>>),
                     IntOf(Get(response.d, "current_date", IntV(ts))))

\* The try block from the comparison with previous_status_message on: the
\* notification and the assignment when the message changed.
try_notify(response, homeworks, status_message, ts, psm, snd, logs) ==
    IF homeworks # <<>> /\ status_message # psm
    THEN IF snd.raised
         THEN TryResult(Exc("Exception", <<"sink failure">>), ts, psm,
                        status_message,
                        <<Sent("status", status_message, snd.delivered)>>,
                        logs \o snd.logs)
         ELSE try_advance(response, ts, status_message, status_message,
                          <<Sent("status", status_message, snd.delivered)>>,
                          logs \o snd.logs,
                          IntOf(Get(response.d, "current_date", IntV(ts))))
    ELSE try_advance(response, ts, psm, status_message, <<>>,
                     logs \o (IF homeworks # <<>>
                              THEN <<Log("debug", <<"Homework status unchanged.">>)>>
                              ELSE <<Log("debug", <<"No new statuses in response.">>)>>),
                     IntOf(Get(response.d, "current_date", IntV(ts))))

\* The try block with the timestamp advanced before the translation, so
\* that a record that does not translate leaves the timestamp advanced.
try_translate_advance_first(response, homeworks, parsed, ts, psm, sinkOk, logs) ==
    IF ~parsed.ok
    THEN TryResult(parsed.exc,
                   IF IntOf(Get(response.d, "current_date", IntV(ts))).ok
                   THEN IntOf(Get(response.d, "current_date", IntV(ts))).value
                   ELSE ts,
                   psm, <<>>, <<>>, logs \o parsed.logs)
    ELSE try_notify(response, homeworks, parsed.value, ts, psm,
                    send_message(sinkOk, parsed.value), logs)

\* The try block from the translation of the first record on.
try_translate(response, homeworks, parsed, ts, psm, sinkOk, logs) ==
    IF ~parsed.ok
    THEN TryResult(parsed.exc, ts, psm, <<>>, <<>>, logs \o parsed.logs)
    ELSE try_notify(response, homeworks, parsed.value, ts, psm,
                    send_message(sinkOk, parsed.value), logs)

\* The try block translating the last record of the list, not the first.
try_validate_last(api, chk, ts, psm, sinkOk) ==
    IF ~api.ok THEN TryResult(api.exc, ts, psm, <<>>, <<>>, api.logs)
    ELSE IF ~chk.ok THEN TryResult(chk.exc, ts, psm, <<>>, <<>>, api.logs \o chk.logs)
    ELSE try_translate(api.value, chk.value,
                       IF chk.value # <<>> THEN parse_status(chk.value[Len(chk.value)])
                       ELSE Returned(<<>>, <<>>),
                       ts, psm, sinkOk, api.logs)

\* The try block from check_response on.
try_validate(api, chk, ts, psm, sinkOk) ==
    IF ~api.ok THEN TryResult(api.exc, ts, psm, <<>>, <<>>, api.logs)
    ELSE IF ~chk.ok THEN TryResult(chk.exc, ts, psm, <<>>, <<>>, api.logs \o chk.logs)
    ELSE try_translate(api.value, chk.value,
                       IF chk.value # <<>> THEN parse_status(chk.value[1])
                       ELSE Returned(<<>>, <<>>),
                       ts, psm, sinkOk, api.logs)

\* The try block of the loop: fetch, validate, translate the first record,
\* notify when the message changed, advance the timestamp.
try_fetched(api, ts, psm, sinkOk) ==
    try_validate(api, IF api.ok THEN check_response(api.value) ELSE api,
                 ts, psm, sinkOk)

main_try(ts, psm, net, sinkOk) ==
    try_fetched(get_api_answer(ts, net), ts, psm, sinkOk)

\* The f-string of the handler.
ErrorMessage(exc) == <<"Program failure: ">> \o Str(exc)

\* The handler recording the text only when the notification was delivered.
except_report_forget_undelivered(error_message, pem, snd) ==
    [error_message |-> error_message,
     pem     |-> IF error_message # pem /\ snd.delivered THEN error_message ELSE pem,
     sent    |-> IF error_message # pem
                 THEN <<Sent("error", error_message, snd.delivered)>>
                 ELSE <<>>,
     logs    |-> <<Log("error", error_message)>>
                 \o (IF error_message # pem THEN snd.logs ELSE <<>>),
     escaped |-> FALSE]

\* The handler without the comparison: every failing cycle notifies.
except_report_always(error_message, pem, snd) ==
    [error_message |-> error_message,
     pem     |-> error_message,
     sent    |-> <<Sent("error", error_message, snd.delivered)>>,
     logs    |-> <<Log("error", error_message)>> \o snd.logs,
     escaped |-> FALSE]

\* The handler letting a failed notification out of the loop.
except_report_unguarded(error_message, pem, snd) ==
    [error_message |-> error_message,
     pem     |-> IF error_message # pem THEN error_message ELSE pem,
     sent    |-> IF error_message # pem
                 THEN <<Sent("error", error_message, snd.delivered)>>
                 ELSE <<>>,
     logs    |-> <<Log("error", error_message)>>
                 \o (IF error_message # pem THEN snd.logs ELSE <<>>),
     escaped |-> error_message # pem /\ ~snd.delivered]

\* The handler logging the error only when it notifies it.
except_report_quiet_repeat(error_message, pem, snd) ==
    [error_message |-> error_message,
     pem     |-> IF error_message # pem THEN error_message ELSE pem,
     sent    |-> IF error_message # pem
                 THEN <<Sent("error", error_message, snd.delivered)>>
                 ELSE <<>>,
     logs    |-> IF error_message # pem
                 THEN <<Log("error", error_message)>> \o snd.logs
                 ELSE <<>>,
     escaped |-> FALSE]

\* The handler once the text is rendered and the notification attempted.
except_report(error_message, pem, snd) ==
    [error_message |-> error_message,
     pem     |-> IF error_message # pem THEN error_message ELSE pem,
     sent    |-> IF error_message # pem
                 THEN <<Sent("error", error_message, snd.delivered)>>
                 ELSE <<>>,
     logs    |-> <<Log("error", error_message)>>
                 \o (IF error_message # pem THEN snd.logs ELSE <<>>),
     escaped |-> FALSE]

\* The except block of the loop: log the error text; when it differs from
\* the one reported last, attempt a notification and record the text, also
\* when the notification raises.
main_except(exc, pem, sinkOk) ==
    except_report(ErrorMessage(exc), pem, send_message(sinkOk, ErrorMessage(exc)))

\* An outcome that forgets the stored error text when the cycle succeeds.
Outcome_clears_error(t, e, pem) ==
    IF ~t.raised
    THEN [failed |-> FALSE, escaped |-> FALSE, error_message |-> <<>>,
          exc |-> NoExc, ts |-> t.ts, psm |-> t.psm, pem |-> <<>>,
          translated |-> t.translated, sent |-> t.sent, logs |-> t.logs]
    ELSE [failed |-> TRUE, escaped |-> e.escaped, error_message |-> e.error_message,
          exc |-> t.exc, ts |-> t.ts, psm |-> t.psm, pem |-> e.pem,
          translated |-> t.translated, sent |-> t.sent \o e.sent,
          logs |-> t.logs \o e.logs]

\* The iteration's outcome from what the try block and the handler left.
Outcome(t, e, pem) ==
    IF ~t.raised
    THEN [failed |-> FALSE, escaped |-> FALSE, error_message |-> <<>>,
          exc |-> NoExc, ts |-> t.ts, psm |-> t.psm, pem |-> pem,
          translated |-> t.translated, sent |-> t.sent, logs |-> t.logs]
    ELSE [failed |-> TRUE, escaped |-> e.escaped, error_message |-> e.error_message,
          exc |-> t.exc, ts |-> t.ts, psm |-> t.psm, pem |-> e.pem,
          translated |-> t.translated, sent |-> t.sent \o e.sent,
          logs |-> t.logs \o e.logs]

Handled(t, pem, sinkError) ==
    Outcome(t, IF t.raised THEN main_except(t.exc, pem, sinkError) ELSE t, pem)

\* One iteration's try/except as a function of the locals and the inputs.
main_iteration(ts, psm, pem, net, sinkStatus, sinkError) ==
    Handled(main_try(ts, psm, net, sinkStatus), pem, sinkError)

----------------------------------------------------------------------------
(* The state machine.                                                      *)

NoCycle == [ran |-> FALSE]
NoPrev  == [outcome |-> "none", translated |-> <<>>, error_message |-> <<>>,
            errorAttempts |-> 0, errorDelivered |-> FALSE, from_date |-> 0]

TokenValues == {"set", "empty", "absent"}

Init ==
    /\ pc = "start"
    /\ tokens \in [TokenNames -> TokenValues]
    /\ current_timestamp = 0
    /\ previous_status_message = <<>>
    /\ previous_error_message = <<>>
    /\ startup = <<>>
    /\ cycle = NoCycle
    /\ prev = NoPrev
    /\ runNotified = FALSE
    /\ lastGood = NoneV
    /\ waits = <<>>
    /\ latest = [failure |-> <<>>, status |-> <<>>]

\* The error text of a transport failure, whose notifications runNotified
\* watches.
WatchedError == ErrorMessage(APIRequestError(ENDPOINT, "None"))

\* The texts of the error notifications among the attempts.
ErrorTexts(sent) == { sent[i].text : i \in { j \in DOMAIN sent : sent[j].kind = "error" } }

\* main up to the loop: check_tokens, the bot class, the three locals.
Startup ==
    /\ pc = "start"
    /\ LET ct == check_tokens(tokens)
       IN  IF ~ct.all_present
           THEN /\ pc' = "exit"
                /\ startup' = [critical |-> ct.critical, stopped |-> TRUE]
                /\ UNCHANGED <<current_timestamp, previous_status_message,
                               previous_error_message, lastGood>>
           ELSE \E importOk \in BOOLEAN, now \in 0..MaxDate :
                IF ~importOk
                THEN /\ pc' = "exit"
                     /\ startup' = [critical |-> {"telegram"}, stopped |-> TRUE]
                     /\ UNCHANGED <<current_timestamp, previous_status_message,
                                    previous_error_message, lastGood>>
                ELSE /\ pc' = "poll"
                     /\ startup' = [critical |-> {}, stopped |-> FALSE]
                     /\ current_timestamp' = now
                     /\ lastGood' = IntV(now)
                     /\ previous_status_message' = <<>>
                     /\ previous_error_message' = <<>>
    /\ UNCHANGED <<tokens, cycle, prev, runNotified, waits, latest>>

\* The sink's answer to the send of a kind is drawn only when the iteration
\* makes that send: when it makes none the answer is fixed (TRUE).
Drawn(sinkOk, kind, sent) ==
    kind \in { sent[i].kind : i \in DOMAIN sent } \cup (IF sinkOk THEN {kind} ELSE {})

\* One iteration of the loop up to its finally clause.  The API's answer
\* and the sink's answer to each send are the environment's choice; a
\* failure of the sink is drawn only for a send the iteration makes.
PollCycle ==
    /\ pc = "poll"
    /\ \E net \in FetchOutcomes, sinkStatus \in BOOLEAN, sinkError \in BOOLEAN :
        \E r \in {main_iteration(current_timestamp, previous_status_message,
                               previous_error_message, net, sinkStatus, sinkError)} :
            /\ Drawn(sinkStatus, "status", r.sent)
            /\ Drawn(sinkError, "error", r.sent)
            /\ current_timestamp' = r.ts
            /\ previous_status_message' = r.psm
            /\ previous_error_message' = r.pem
            /\ cycle' = [ran |-> TRUE,
                         pre |-> [ts |-> current_timestamp,
                                  psm |-> previous_status_message,
                                  pem |-> previous_error_message,
                                  runNotified |-> runNotified,
                                  lastGood |-> lastGood,
                                  waits |-> waits,
                                  latest |-> latest],
                         net |-> net,
                         request |-> get_api_answer(current_timestamp, net).request,
                         failed |-> r.failed,
                         exc |-> r.exc,
                         error_message |-> r.error_message,
                         translated |-> r.translated,
                         sent |-> r.sent,
                         logs |-> r.logs]
            /\ runNotified' = (r.failed /\ (runNotified \/ WatchedError \in ErrorTexts(r.sent)))
            /\ lastGood' = IF r.failed THEN lastGood
                            ELSE net.value.d["current_date"]
            /\ waits' = <<>>
            /\ latest' = [failure |-> IF r.failed THEN r.error_message
                                      ELSE latest.failure,
                          status  |-> IF \E i \in DOMAIN r.sent : r.sent[i].kind = "status"
                                      THEN r.translated ELSE latest.status]
            /\ pc' = IF r.escaped THEN "crashed" ELSE "sleep"
    /\ UNCHANGED <<tokens, startup, prev>>

\* A sleep that doubles after a failed iteration.
finally_sleep_backoff(failed) == IF failed THEN 2 * RETRY_TIME ELSE RETRY_TIME

\* The duration the finally clause sleeps, whatever the iteration did.
finally_sleep(failed) == RETRY_TIME

\* The finally clause: time.sleep(RETRY_TIME), then the next iteration.
Sleep ==
    /\ pc = "sleep"
    /\ pc' = "poll"
    /\ prev' = [outcome |-> IF cycle.failed THEN "failed" ELSE "ok",
                from_date |-> cycle.request.from_date,
                translated |-> cycle.translated,
                error_message |-> cycle.error_message,
                errorAttempts |-> Cardinality({ i \in DOMAIN cycle.sent :
                                      cycle.sent[i].text = cycle.error_message }),
                errorDelivered |-> \E i \in DOMAIN cycle.sent :
                                      /\ cycle.sent[i].text = cycle.error_message
                                      /\ cycle.sent[i].delivered]
    /\ cycle' = NoCycle
    /\ waits' = Append(waits, finally_sleep(cycle.failed))
    /\ UNCHANGED <<tokens, current_timestamp, previous_status_message,
                   previous_error_message, startup, runNotified, lastGood,
                   latest>>

Next == Startup \/ PollCycle \/ Sleep

Spec == Init /\ [][Next]_vars

----------------------------------------------------------------------------
(* Vocabulary of the properties: what a completed iteration was given and  *)
(* what it did.  An iteration is complete when main is in the finally      *)
(* clause (pc = "sleep"); cycle.pre holds the locals as the iteration      *)
(* found them.                                                             *)

CycleDone == pc = "sleep"

\* The fetch succeeded: a response with status 200 and a body that decodes.
FetchSucceeded ==
    /\ CycleDone
    /\ ~cycle.net.raises
    /\ cycle.net.status_code = HTTP_OK
    /\ cycle.net.decodable

Payload == cycle.net.value

\* The response validates.
Validated == FetchSucceeded /\ check_response(Payload).ok

Homeworks   == Payload.d["homeworks"].items
CurrentDate == Payload.d["current_date"]

NonEmpty == Validated /\ Homeworks # <<>>

\* The first record translates, and the message it translates to.
FirstTranslates == NonEmpty /\ parse_status(Homeworks[1]).ok
FirstMessage    == parse_status(Homeworks[1]).value

\* The notifications the iteration attempted, by kind and by text.
Attempts(kind)   == { i \in DOMAIN cycle.sent : cycle.sent[i].kind = kind }
AttemptsOf(text) == { i \in DOMAIN cycle.sent : cycle.sent[i].text = text }

\* The status codes the specification names.
KnownStatuses == {"approved", "reviewing", "rejected"}

\* A record carrying a status code outside the known ones.
HasUnknownStatus(r) ==
    /\ IsDict(r)
    /\ "status" \in DOMAIN r.d
    /\ r.d["status"] \notin KnownStatuses

----------------------------------------------------------------------------
(* The properties.                                                         *)

\* C1: in a cycle whose fetch succeeds and whose response validates with a
\* non-empty homework list, if the first record's translated message differs
\* from the stored previous_status_message, exactly one notification is
\* issued, its text is that message, and afterwards previous_status_message
\* equals it.
C1_ChangedStatusNotifiedOnce ==
    (FirstTranslates /\ FirstMessage # cycle.pre.psm)
    => /\ Len(cycle.sent) = 1
       /\ cycle.sent[1].text = FirstMessage
       /\ previous_status_message = FirstMessage

\* C2: in a cycle with a valid response whose first record translates to
\* the stored previous_status_message, no notification is issued and
\* previous_status_message is unchanged; and of two successful cycles in a
\* row whose first records translate alike, as they do on the same
\* response, the second issues none.
C2_UnchangedStatusNotNotified ==
    /\ (FirstTranslates /\ FirstMessage = cycle.pre.psm)
       => /\ cycle.sent = <<>>
          /\ previous_status_message = cycle.pre.psm
    /\ (CycleDone /\ ~cycle.failed /\ prev.outcome = "ok"
            /\ cycle.translated = prev.translated)
       => cycle.sent = <<>>

\* C3: of two consecutive cycles failing with the same rendered error text,
\* the second attempts no notification carrying that text, so that at most
\* one is attempted across the two, delivered or not.
C3_RepeatedErrorNotNotifiedAgain ==
    (CycleDone /\ cycle.failed /\ prev.outcome = "failed"
        /\ prev.error_message = cycle.error_message)
    => /\ AttemptsOf(cycle.error_message) = {}
       /\ prev.errorAttempts <= 1

C3_Witness ==
    /\ CycleDone /\ cycle.failed /\ prev.outcome = "failed"
    /\ prev.error_message = cycle.error_message
    /\ prev.errorAttempts = 1
    /\ ~prev.errorDelivered

\* C4 as claimed: within a run of cycles with no successful cycle, an error
\* text is notified at most once, whatever other error texts come between
\* (stated for the text of a transport failure, which runNotified watches).
C4_NoRepeatWithinRun ==
    (CycleDone /\ cycle.pre.runNotified)
    => WatchedError \notin ErrorTexts(cycle.sent)

\* C4 as amended: within a run of failing cycles, a cycle attempts a
\* notification of its error text exactly when that text differs from the
\* text of the cycle immediately before it, and then attempts one only.
C4_NotifiedWhenTextChanges ==
    (CycleDone /\ cycle.failed /\ prev.outcome = "failed")
    => /\ (AttemptsOf(cycle.error_message) # {}
             <=> cycle.error_message # prev.error_message)
       /\ Cardinality(AttemptsOf(cycle.error_message)) <= 1

\* Error A, error B, error A with no success between: A is notified again.
C4_Witness ==
    /\ CycleDone /\ cycle.failed /\ prev.outcome = "failed"
    /\ cycle.pre.runNotified
    /\ cycle.error_message = WatchedError
    /\ AttemptsOf(WatchedError) # {}

\* C5: a cycle that fails leaves current_timestamp as it found it, and the
\* fetch of the cycle after it carries the same from_date.
C5_FailureKeepsTimestamp ==
    /\ (CycleDone /\ cycle.failed) => current_timestamp = cycle.pre.ts
    /\ (CycleDone /\ prev.outcome = "failed")
       => cycle.request.from_date = prev.from_date

\* A cycle that failed in translation although its response carried a
\* current_date other than the stored timestamp.
C5_Witness ==
    /\ Validated /\ cycle.failed
    /\ prev.outcome = "failed"
    /\ CurrentDate.t = "int"
    /\ CurrentDate.v # cycle.pre.ts
    /\ current_timestamp = cycle.pre.ts

\* C6: a cycle whose response validates and whose translation does not fail
\* ends with current_timestamp equal to the response's current_date, and
\* with no notification when the homework list is empty.
C6_SuccessAdvancesTimestamp ==
    (Validated /\ (Homeworks = <<>> \/ FirstTranslates))
    => /\ NumEq(CurrentDate, current_timestamp)
       /\ (Homeworks = <<>> => cycle.sent = <<>>)

\* C7: once the loop is entered nothing ends it: main is never left by an
\* error, every iteration, failed or not, reaches the sleep, the sleep is
\* followed by the next iteration, and in that iteration no answer of the
\* API and of the sink lets an error escape.
C7_LoopNeverEnds ==
    /\ pc # "crashed"
    /\ (pc = "sleep" => cycle.ran /\ ENABLED Sleep)
    /\ (pc = "poll" =>
          /\ FetchOutcomes # {}
          /\ \A net \in FetchOutcomes, sinkStatus \in BOOLEAN, sinkError \in BOOLEAN :
                ~main_iteration(current_timestamp, previous_status_message,
                                previous_error_message, net,
                                sinkStatus, sinkError).escaped)

\* The next iteration has begun after one that failed and whose error
\* notification the sink refused.
C7_Witness ==
    /\ pc = "poll"
    /\ prev.outcome = "failed"
    /\ prev.errorAttempts = 1
    /\ ~prev.errorDelivered

\* C8: send_message never raises; when the sink fails on a status
\* notification the cycle is not a failed one (no error notification,
\* previous_error_message unchanged) and current_timestamp still advances
\* to the response's current_date.
C8_SinkFailureOnlyLogged ==
    /\ \A ok \in BOOLEAN : ~send_message(ok, <<"text">>).raised
    /\ (CycleDone /\ \E i \in Attempts("status") : ~cycle.sent[i].delivered)
       => /\ ~cycle.failed
          /\ Attempts("error") = {}
          /\ previous_error_message = cycle.pre.pem
          /\ NumEq(CurrentDate, current_timestamp)

\* C9: a cycle attempts at most one notification, status or error.
C9_AtMostOneNotification ==
    CycleDone => Len(cycle.sent) <= 1

\* C10: a first record whose status is outside approved, reviewing and
\* rejected does not translate; the cycle sends no status notification and
\* leaves previous_status_message as it found it.
C10_UnknownStatusNotNotified ==
    /\ \A r \in HeadRecords \cup TailRecords :
          HasUnknownStatus(r) => ~parse_status(r).ok
    /\ (NonEmpty /\ HasUnknownStatus(Homeworks[1]))
       => /\ cycle.failed
          /\ Attempts("status") = {}
          /\ previous_status_message = cycle.pre.psm

\* A record of unknown status arrived while a status message was stored,
\* and the failure was reported.
C10_Witness ==
    /\ NonEmpty /\ HasUnknownStatus(Homeworks[1])
    /\ cycle.pre.psm # <<>>
    /\ Attempts("error") # {}

\* The first record is a mapping holding both keys parse_status reads.
FirstHasBothKeys ==
    /\ IsDict(Homeworks[1])
    /\ {"homework_name", "status"} \subseteq DOMAIN Homeworks[1].d

\* C11: when the first record does not translate, the failure is typed: a
\* record with both keys and a status outside the verdicts fails with
\* UnknownStatusError carrying that status; a record that is no mapping or
\* lacks a key fails with the response-format error and not with the
\* unknown-status one.
C11_TranslationFailureTyped ==
    (NonEmpty /\ ~FirstTranslates)
    => IF FirstHasBothKeys
       THEN /\ cycle.exc.type = "UnknownStatusError"
            /\ cycle.exc.args = <<Homeworks[1].d["status"]>>
       ELSE /\ cycle.exc.type = "APIResponseFormatError"
            /\ cycle.exc.type # "UnknownStatusError"

\* The five ways a payload can be malformed, in the order the claim lists
\* them, and the failure each is reported with.
SchemaFaults(p) ==
    { i \in 1..5 :
        \/ i = 1 /\ ~IsDict(p)
        \/ i = 2 /\ IsDict(p) /\ "homeworks" \notin DOMAIN p.d
        \/ i = 3 /\ IsDict(p) /\ "current_date" \notin DOMAIN p.d
        \/ i = 4 /\ IsDict(p) /\ "homeworks" \in DOMAIN p.d
                 /\ ~IsList(p.d["homeworks"])
        \/ i = 5 /\ IsDict(p) /\ "current_date" \in DOMAIN p.d
                 /\ ~IsNumber(p.d["current_date"]) }

FirstFault(p) == CHOOSE i \in SchemaFaults(p) : \A j \in SchemaFaults(p) : i <= j

FaultReport ==
    << Exc("TypeError", <<"API response is not a dict">>),
       Exc("KeyError", <<"homeworks">>),
       Exc("KeyError", <<"current_date">>),
       Exc("TypeError", <<"homeworks is not a list">>),
       Exc("TypeError", <<"current_date has invalid type">>) >>

MissingTokens == { n \in TokenNames : tokens[n] # "set" }

\* C13: with a configuration value absent or empty main never reaches the
\* loop: it stops at startup having logged one critical record for each
\* missing value, and no iteration (no fetch, no notification) ever runs.
C13_MissingConfigStopsBeforeLoop ==
    MissingTokens # {}
    => /\ pc \in {"start", "exit"}
       /\ cycle = NoCycle
       /\ prev = NoPrev
       /\ pc = "exit" => /\ startup.stopped
                         /\ startup.critical = MissingTokens

\* main stopped on one empty and one absent value, each with its record.
C13_Witness ==
    /\ pc = "exit"
    /\ \E a, b \in TokenNames :
          /\ tokens[a] = "empty" /\ tokens[b] = "absent"
          /\ startup.critical = {a, b}

\* C14, as claimed: the from_date of every request is current_timestamp as
\* the cycle found it, and that is the current_date of the most recent
\* successful cycle, or the startup time when none succeeded yet; after a
\* failed cycle the request carries the from_date of the request before.
C14_FromDateIsLastCurrentDate ==
    CycleDone
    => /\ cycle.request.from_date = cycle.pre.ts
       /\ NumEq(cycle.pre.lastGood, cycle.request.from_date)
       /\ prev.outcome = "failed" => cycle.request.from_date = prev.from_date

\* C14, amended: the from_date of every request is current_timestamp as the
\* cycle found it, and that is int() of the current_date of the most recent
\* successful cycle (a non-integral current_date is truncated toward zero),
\* or the startup time when none succeeded yet; after a failed cycle the
\* request carries the from_date of the request before.
C14_FromDateIsLastCurrentDateTruncated ==
    CycleDone
    => /\ cycle.request.from_date = cycle.pre.ts
       /\ IntOf(cycle.pre.lastGood).ok
       /\ cycle.request.from_date = IntOf(cycle.pre.lastGood).value
       /\ prev.outcome = "failed" => cycle.request.from_date = prev.from_date

\* A cycle succeeded on a current_date other than the startup time, the
\* next failed, and the request after it still carried that current_date.
C14_Witness ==
    /\ CycleDone
    /\ prev.outcome = "failed"
    /\ cycle.pre.lastGood \in IntDates \cup {FloatV(3)}
    /\ cycle.request.from_date = IntOf(cycle.pre.lastGood).value
    /\ cycle.request.from_date > 0

\* C15: every iteration after the first starts after exactly one sleep of
\* RETRY_PERIOD since the iteration before it ended, whether that iteration
\* succeeded, failed and notified, or failed and kept silent; the first
\* starts without a sleep; an iteration that ended is followed by nothing
\* but that sleep.
C15_OneConstantWaitBetweenCycles ==
    /\ CycleDone
       => /\ cycle.pre.waits = IF prev.outcome = "none" THEN <<>>
                               ELSE <<RETRY_PERIOD>>
          /\ waits = <<>>
          /\ ENABLED Sleep
    /\ (pc = "poll" /\ prev.outcome # "none") => waits = <<RETRY_PERIOD>>
    /\ (pc = "poll" /\ prev.outcome = "none") => waits = <<>>

\* An iteration that began one sleep of RETRY_PERIOD after an iteration
\* that failed without notifying.
C15_Witness ==
    /\ CycleDone
    /\ prev.outcome = "failed" /\ prev.errorAttempts = 0
    /\ cycle.pre.waits = <<RETRY_PERIOD>>

\* C16: a cycle failing with a text other than previous_error_message
\* attempts one error notification, of that text, and ends with the text
\* stored, delivered or not; a cycle failing with the stored text attempts
\* none, so a text whose notification the sink refused is not notified
\* again in the cycles that fail with it next.
C16_ErrorTextStoredDeliveredOrNot ==
    (CycleDone /\ cycle.failed)
    => /\ cycle.error_message # cycle.pre.pem
          => /\ Cardinality(Attempts("error")) = 1
             /\ Attempts("error") \subseteq AttemptsOf(cycle.error_message)
             /\ previous_error_message = cycle.error_message
       /\ cycle.error_message = cycle.pre.pem
          => /\ Attempts("error") = {}
             /\ previous_error_message = cycle.pre.pem
       /\ (prev.outcome = "failed" /\ prev.error_message = cycle.error_message
             /\ prev.errorAttempts > 0 /\ ~prev.errorDelivered)
          => Attempts("error") = {}

\* The sink refused the notification of a new error text and the text was
\* stored all the same.
C16_Witness ==
    /\ CycleDone /\ cycle.failed
    /\ cycle.error_message # cycle.pre.pem
    /\ \E i \in Attempts("error") : ~cycle.sent[i].delivered
    /\ previous_error_message = cycle.error_message

\* C17: every failing cycle logs, at error level, the text rendered from
\* its exception, also when it notifies nothing because the text is the
\* stored one.
C17_EveryFailureLogged ==
    (CycleDone /\ cycle.failed)
    => /\ cycle.error_message = ErrorMessage(cycle.exc)
       /\ \E i \in DOMAIN cycle.logs :
             cycle.logs[i] = Log("error", ErrorMessage(cycle.exc))

\* A failing cycle that kept silent and logged its error.
C17_Witness ==
    /\ CycleDone /\ cycle.failed
    /\ cycle.error_message = cycle.pre.pem
    /\ cycle.sent = <<>>
    /\ Log("error", cycle.error_message) \in { cycle.logs[i] : i \in DOMAIN cycle.logs }

\* C18: what a cycle does with a non-empty list is decided by the first
\* record alone: the message compared and sent is the first record's, a
\* status notification is attempted exactly when that message differs from
\* the stored one, previous_status_message ends as it was or as that
\* message, and the cycle fails only if the first record does not
\* translate or the timestamp does not convert; the later records, as many
\* as there are and whatever they hold, change none of it.
C18_OnlyFirstRecordCounts ==
    NonEmpty
    => /\ cycle.translated = IF FirstTranslates THEN FirstMessage ELSE <<>>
       /\ \A i \in Attempts("status") :
             FirstTranslates /\ cycle.sent[i].text = FirstMessage
       /\ (Attempts("status") # {})
             <=> (FirstTranslates /\ FirstMessage # cycle.pre.psm)
       /\ previous_status_message =
             IF FirstTranslates THEN FirstMessage ELSE cycle.pre.psm
       /\ cycle.failed <=> (~FirstTranslates \/ ~IntOf(CurrentDate).ok)

\* A list as long as the bound allows, whose later records do not all
\* translate, in a cycle that succeeded and notified the first record.
C18_Witness ==
    /\ NonEmpty
    /\ Len(Homeworks) = MaxLen
    /\ \E i \in 2..Len(Homeworks) : ~parse_status(Homeworks[i]).ok
    /\ ~cycle.failed
    /\ Attempts("status") # {}

\* C19: a cycle that succeeds leaves previous_error_message as it found
\* it, so only a failing cycle changes it; a cycle that fails, after a
\* successful one, with the text of the latest failing cycle before it
\* attempts no error notification.
C19_SuccessKeepsErrorText ==
    CycleDone
    => /\ ~cycle.failed => previous_error_message = cycle.pre.pem
       /\ previous_error_message # cycle.pre.pem => cycle.failed
       /\ (cycle.failed /\ prev.outcome = "ok"
             /\ cycle.error_message = cycle.pre.latest.failure)
          => Attempts("error") = {}

\* Error E, a successful cycle, error E again: nothing is notified.
C19_Witness ==
    /\ CycleDone /\ cycle.failed
    /\ prev.outcome = "ok"
    /\ cycle.error_message = cycle.pre.latest.failure
    /\ cycle.sent = <<>>

====
